---- MODULE Spec2Model ----
(***************************************************************************)
(* xsharp: a three stage translator (tokenize, parse, generate) from a     *)
(* small C-like language to C, src/main.go.                                *)
(*                                                                         *)
(* Source text, token values and generated text are sequences of one       *)
(* character strings; offsets are 0-based as in the Go code, sequence      *)
(* indices 1-based.                                                        *)
(***************************************************************************)
EXTENDS Integers, Sequences, FiniteSets, TLC

(***************************************************************************)
(* Bounds of the model.                                                    *)
(***************************************************************************)
\* longest source text enumerated character by character
MaxLexLen == 4

(***************************************************************************)
(* Character classes of the regular expressions of tokenSpecs.             *)
(***************************************************************************)
Digit == {"0", "1", "2", "3", "4", "5", "6", "7", "8", "9"}

Letter ==
  {"a", "b", "c", "d", "e", "f", "g", "h", "i", "j", "k", "l", "m",
   "n", "o", "p", "q", "r", "s", "t", "u", "v", "w", "x", "y", "z",
   "A", "B", "C", "D", "E", "F", "G", "H", "I", "J", "K", "L", "M",
   "N", "O", "P", "Q", "R", "S", "T", "U", "V", "W", "X", "Y", "Z", "_"}

OpChar == {"+", "-", "*", "/", "=", "<", ">", "!"}

Blank == {" ", "\t"}

\* number of consecutive characters of class S in code from index i on
RECURSIVE Run(_, _, _)
Run(code, i, S) ==
  IF i <= Len(code) /\ code[i] \in S THEN 1 + Run(code, i + 1, S) ELSE 0

\* index at which the body ([^"\\]|\\.)* of a string literal stops, scanning
\* from index j; '.' does not match a newline
RECURSIVE StringBodyEnd(_, _)
StringBodyEnd(code, j) ==
  IF j > Len(code) THEN j
  ELSE IF code[j] \notin {"\"", "\\"} THEN StringBodyEnd(code, j + 1)
  ELSE IF code[j] = "\\" /\ j + 1 <= Len(code) /\ code[j + 1] # "\n"
       THEN StringBodyEnd(code, j + 2)
  ELSE j

\* the categories with the angle brackets declared before the operators
tokenSpecs_AngleFirst ==
  <<"NUMBER", "STRING", "ID", "LANGLE", "RANGLE", "OP", "LPAREN", "RPAREN",
    "LBRACE", "RBRACE", "COLON", "SEMICOLON", "COMMA", "NEWLINE", "SKIP",
    "MISMATCH">>

\* the token categories in declaration order
tokenSpecs ==
  <<"NUMBER", "STRING", "ID", "OP", "LPAREN", "RPAREN", "LBRACE", "RBRACE",
    "LANGLE", "RANGLE", "COLON", "SEMICOLON", "COMMA", "NEWLINE", "SKIP",
    "MISMATCH">>

\* the single character of the one-character categories
SingleChar(typ) ==
  CASE typ = "LPAREN" -> "("
    [] typ = "RPAREN" -> ")"
    [] typ = "LBRACE" -> "{"
    [] typ = "RBRACE" -> "}"
    [] typ = "LANGLE" -> "<"
    [] typ = "RANGLE" -> ">"
    [] typ = "COLON" -> ":"
    [] typ = "SEMICOLON" -> ";"
    [] typ = "COMMA" -> ","
    [] typ = "NEWLINE" -> "\n"

\* length of the match of category typ anchored at index i (i <= Len(code)),
\* 0 when the category's pattern does not match there
MatchLen(typ, code, i) ==
  CASE typ = "NUMBER" ->
         IF code[i] \in Digit
         THEN LET d == Run(code, i, Digit)
              IN IF i + d <= Len(code) /\ code[i + d] = "."
                 THEN d + 1 + Run(code, i + d + 1, Digit)
                 ELSE d
         ELSE 0
    [] typ = "STRING" ->
         IF code[i] = "\""
         THEN LET e == StringBodyEnd(code, i + 1)
              IN IF e <= Len(code) /\ code[e] = "\"" THEN e - i + 1 ELSE 0
         ELSE 0
    [] typ = "ID" ->
         IF code[i] \in Letter
         THEN 1 + Run(code, i + 1, Letter \cup Digit)
         ELSE 0
    [] typ = "OP" -> IF code[i] \in OpChar THEN 1 ELSE 0
    [] typ = "SKIP" -> Run(code, i, Blank)
    [] typ = "MISMATCH" -> IF code[i] # "\n" THEN 1 ELSE 0
    [] OTHER -> IF code[i] = SingleChar(typ) THEN 1 ELSE 0

\* index in tokenSpecs of the first category that matches at index i, 0 if
\* none does: the alternatives of the combined pattern are tried in order
FirstSpec(code, i) ==
  LET hits == {k \in 1..Len(tokenSpecs) : MatchLen(tokenSpecs[k], code, i) > 0}
  IN IF hits = {} THEN 0 ELSE CHOOSE k \in hits : \A h \in hits : k <= h

\* regex.FindAllStringSubmatchIndex(code, -1): the successive leftmost
\* non-overlapping matches, as [start, end) offsets with the matched category
RECURSIVE FindAllFrom(_, _)
FindAllFrom(code, i) ==
  IF i > Len(code) THEN <<>>
  ELSE LET k == FirstSpec(code, i)
       IN IF k = 0 THEN FindAllFrom(code, i + 1)
          ELSE LET n == MatchLen(tokenSpecs[k], code, i)
               IN <<[start |-> i - 1, end |-> i - 1 + n, typ |-> tokenSpecs[k]]>>
                  \o FindAllFrom(code, i + n)

FindAll(code) == FindAllFrom(code, 1)

\* the slice taken one character short
Slice_OffByOne(code, fullStart, fullEnd) ==
  SubSeq(code, fullStart + 1, fullEnd - 1)

\* code[fullStart:fullEnd]
Slice(code, fullStart, fullEnd) == SubSeq(code, fullStart + 1, fullEnd)

\* the loop of tokenize over the matches from the k-th on
RECURSIVE TokenizeLoop(_, _, _, _, _, _)
TokenizeLoop(code, matches, k, line, lineStart, toks) ==
  IF k > Len(matches)
  THEN [ok |-> TRUE,
        tokens |-> Append(toks, [Type |-> "EOF", Value |-> <<>>,
                                 Line |-> line, Column |-> 0]),
        errValue |-> <<>>, errLine |-> 0, errCol |-> 0]
  ELSE LET m == matches[k]
           value == Slice(code, m.start, m.end)
           col == m.start - lineStart
       IN CASE m.typ = "SKIP" ->
                 TokenizeLoop(code, matches, k + 1, line, lineStart, toks)
            [] m.typ = "NEWLINE" ->
                 TokenizeLoop(code, matches, k + 1, line + 1, m.end, toks)
            [] m.typ = "MISMATCH" ->
                 [ok |-> FALSE, tokens |-> <<>>,
                  errValue |-> value, errLine |-> line, errCol |-> col]
            [] OTHER ->
                 TokenizeLoop(code, matches, k + 1, line, lineStart,
                              Append(toks, [Type |-> m.typ, Value |-> value,
                                            Line |-> line, Column |-> col]))

tokenize(code) == TokenizeLoop(code, FindAll(code), 1, 1, 0, <<>>)


(***************************************************************************)
(* Code generator: the text written by each emit method.                   *)
(***************************************************************************)
Includes ==
  <<"#", "i", "n", "c", "l", "u", "d", "e", " ", "<", "s", "t", "d", "i",
    "o", ".", "h", ">", "\n", "#", "i", "n", "c", "l", "u", "d", "e", " ",
    "<", "s", "t", "d", "l", "i", "b", ".", "h", ">", "\n", "#", "i", "n",
    "c", "l", "u", "d", "e", " ", "<", "s", "t", "r", "i", "n", "g", ".",
    "h", ">", "\n", "\n">>

\* the indentation emitFunction and emitClass set for a body
Indent4 == <<" ", " ", " ", " ">>

\* fmt.Sprintf("%s %s", param.Type, param.Name)
ParamText(param) == param.Type \o <<" ">> \o param.Name

\* strings.Join(strs, ", ")
RECURSIVE JoinComma(_)
JoinComma(strs) ==
  IF strs = <<>> THEN <<>>
  ELSE IF Len(strs) = 1 THEN strs[1]
  ELSE strs[1] \o <<",", " ">> \o JoinComma(Tail(strs))

ParamTexts(params) == [k \in 1..Len(params) |-> ParamText(params[k])]

\* emitStatement with the default of a VarDecl put in quotes when it is not
\* a number
emitStatement_QuotedDefault(stmt, indent) ==
  CASE stmt.kind = "VarDecl" ->
         indent \o stmt.VarType \o <<" ">> \o stmt.Name
           \o (IF stmt.Default # <<>>
               THEN IF stmt.Default[1] \in Digit
                    THEN <<" ", "=", " ">> \o stmt.Default
                    ELSE <<" ", "=", " ", "\"">> \o stmt.Default \o <<"\"">>
               ELSE <<>>)
           \o <<";", "\n">>
    [] stmt.kind = "Statement" -> indent \o stmt.Expr \o <<";", "\n">>
    [] OTHER ->
         indent \o <<"/", "/", " ", "U", "n", "k", "n", "o", "w", "n", " ",
                     "s", "t", "a", "t", "e", "m", "e", "n", "t", "\n">>

emitStatement(stmt, indent) ==
  CASE stmt.kind = "VarDecl" ->
         indent \o stmt.VarType \o <<" ">> \o stmt.Name
           \o (IF stmt.Default # <<>>
               THEN <<" ", "=", " ">> \o stmt.Default ELSE <<>>)
           \o <<";", "\n">>
    [] stmt.kind = "Statement" -> indent \o stmt.Expr \o <<";", "\n">>
    [] OTHER ->
         indent \o <<"/", "/", " ", "U", "n", "k", "n", "o", "w", "n", " ",
                     "s", "t", "a", "t", "e", "m", "e", "n", "t", "\n">>

RECURSIVE emitBody(_, _)
emitBody(stmts, indent) ==
  IF stmts = <<>> THEN <<>>
  ELSE emitStatement(Head(stmts), indent) \o emitBody(Tail(stmts), indent)

\* emitFunction closing the function with "}\n" only
emitFunction_NoBlankLine(fn) ==
  fn.RetType \o <<" ">> \o fn.Name \o <<"(">>
    \o JoinComma(ParamTexts(fn.Params)) \o <<")", " ", "{", "\n">>
    \o emitBody(fn.Body, Indent4)
    \o <<"}", "\n">>

emitFunction(fn) ==
  fn.RetType \o <<" ">> \o fn.Name \o <<"(">>
    \o JoinComma(ParamTexts(fn.Params)) \o <<")", " ", "{", "\n">>
    \o emitBody(fn.Body, Indent4)
    \o <<"}", "\n", "\n">>

\* the field lines of the struct: one per VarDecl member
RECURSIVE emitFields(_)
emitFields(members) ==
  IF members = <<>> THEN <<>>
  ELSE (IF Head(members).kind = "VarDecl"
        THEN Indent4 \o Head(members).VarType \o <<" ">>
               \o Head(members).Name \o <<";", "\n">>
        ELSE <<>>)
       \o emitFields(Tail(members))

\* the free functions of the class: one per FunctionDecl member
RECURSIVE emitMethods(_, _)
emitMethods(clsName, members) ==
  IF members = <<>> THEN <<>>
  ELSE (IF Head(members).kind = "FunctionDecl"
        THEN LET fn == Head(members)
             IN fn.RetType \o <<" ">> \o clsName \o <<"_">> \o fn.Name
                  \o <<"(">>
                  \o JoinComma(<<clsName \o <<"*", " ", "t", "h", "i", "s">>>>
                               \o ParamTexts(fn.Params))
                  \o <<")", " ", "{", "\n">>
                  \o emitBody(fn.Body, Indent4)
                  \o <<"}", "\n", "\n">>
        ELSE <<>>)
       \o emitMethods(clsName, Tail(members))

emitClass(cls) ==
  <<"t", "y", "p", "e", "d", "e", "f", " ", "s", "t", "r", "u", "c", "t",
    " ">> \o cls.Name \o <<" ", "{", "\n">>
    \o emitFields(cls.Members)
    \o <<"}", " ">> \o cls.Name \o <<";", "\n", "\n">>
    \o emitMethods(cls.Name, cls.Members)

RECURSIVE emitDecls(_)
emitDecls(decls) ==
  IF decls = <<>> THEN <<>>
  ELSE (CASE Head(decls).kind = "FunctionDecl" -> emitFunction(Head(decls))
          [] Head(decls).kind = "ClassDecl" -> emitClass(Head(decls))
          [] OTHER -> <<>>)
       \o emitDecls(Tail(decls))

generate(prog) == Includes \o emitDecls(prog.Declarations)

(***************************************************************************)
(* Source texts the model runs the pipeline on.                            *)
(***************************************************************************)
LexAlphabet == {"a", "1", ".", "\"", "\\", "\n", " ", "<", "@"}

\* every text over LexAlphabet of at most MaxLexLen characters
LexInputs == UNION {[1..n -> LexAlphabet] : n \in 0..MaxLexLen}

SrcLines == <<"a", "\n", "b", "b">>

SrcClassFoo ==
  <<"c", "l", "a", "s", "s", " ", "F", "o", "o", " ", ":", " ", "B", "a",
    "r", " ", "{", " ", "i", "n", "t", " ", "x", ";", " ", "i", "n", "t",
    " ", "g", "e", "t", "(", ")", " ", "{", " ", "x", ";", " ", "}", " ",
    "}">>

SrcAdd ==
  <<"i", "n", "t", " ", "a", "d", "d", "(", "i", "n", "t", " ", "a", ",",
    " ", "i", "n", "t", " ", "b", ")", " ", "{", " ", "r", "e", "t", "u",
    "r", "n", " ", "a", ";", " ", "}">>

SrcNoop ==
  <<"v", "o", "i", "d", " ", "n", "o", "o", "p", "(", ")", " ", "{", " ",
    "}">>

Wclass == <<"c", "l", "a", "s", "s">>
WLPAREN == <<"L", "P", "A", "R", "E", "N">>
WRPAREN == <<"R", "P", "A", "R", "E", "N">>
WLBRACE == <<"L", "B", "R", "A", "C", "E">>
WSEMICOLON == <<"S", "E", "M", "I", "C", "O", "L", "O", "N">>
\* a string literal holding an escaped quote and a raw newline
WString == <<"\"", "\\", "\"", "\n", "\"">>

\* programs as word lists; every one of them parses
BasePrograms ==
  { <<<<"t">>, <<"f">>, <<"(">>, <<"t">>, <<"a">>, <<",">>, <<"t">>, <<"b">>,
      <<")">>, <<"{">>, <<"t">>, <<"x">>, <<"=">>, <<"1">>, <<";">>,
      <<"x">>, <<";">>, <<"}">>>>,
    <<Wclass, <<"C">>, <<":">>, <<"B">>, <<"{">>, <<"t">>, <<"x">>, <<";">>,
      <<"t">>, <<"y">>, <<"=">>, <<"\"", "s", "\"">>, <<";">>, <<"}">>>>,
    <<Wclass, <<"C">>, <<"{">>, <<"}">>, <<"t">>, <<"f">>, <<"(">>, <<")">>,
      <<"{">>, <<"\"", "s", "\"">>, <<";">>, <<"1">>, <<";">>, <<"}">>>>,
    <<<<"t">>, <<"f">>, WLPAREN, <<"t">>, <<"a">>, WRPAREN, WLBRACE,
      <<"t">>, <<"x">>, WSEMICOLON, <<"}">>>> }

\* words put in place of a word of a base program
MutWords ==
  { <<"t">>, <<"(">>, <<")">>, <<"{">>, <<"}">>, <<";">>, <<",">>, <<":">>,
    <<"=">>, <<"1", ".">>, Wclass, WString, WLPAREN, WRPAREN, WLBRACE,
    WSEMICOLON }

\* a base program, its proper prefixes, and the program with one word
\* deleted or replaced
Variants(ws) ==
  {SubSeq(ws, 1, k) : k \in 0..Len(ws)}
    \cup {SubSeq(ws, 1, k - 1) \o SubSeq(ws, k + 1, Len(ws)) : k \in 1..Len(ws)}
    \cup {[ws EXCEPT ![k] = w] : k \in 1..Len(ws), w \in MutWords}

\* the words separated by single spaces
RECURSIVE JoinWords(_)
JoinWords(ws) ==
  IF ws = <<>> THEN <<>>
  ELSE IF Len(ws) = 1 THEN ws[1]
  ELSE ws[1] \o <<" ">> \o JoinWords(Tail(ws))

ProgInputs == {JoinWords(v) : v \in UNION {Variants(b) : b \in BasePrograms}}

Inputs == LexInputs \cup ProgInputs \cup {SrcLines, SrcClassFoo, SrcAdd, SrcNoop}

(***************************************************************************)
(* State of one run of main.                                               *)
(***************************************************************************)
VARIABLES
  pc,          \* position of main: start, read, lex, parse, generate, write, exit
  code,        \* the source text read from the input file
  lex,         \* what tokenize returned
  tokens,      \* Parser.tokens
  pos,         \* Parser.pos
  ppc,         \* position of the parser, named by function and source line
  fr,          \* the locals of the parse functions in progress
  decls,       \* the declarations parse has collected
  ast,         \* the Program parse returned
  accepted,    \* history: the tokens consume has accepted against an expectation
  cCode,       \* the text generate returned
  outFile,     \* the output file
  msg,         \* the message printed last
  exitStatus   \* exit status of the process, -1 while it runs

vars ==
  <<pc, code, lex, tokens, pos, ppc, fr, decls, ast, accepted, cCode, outFile,
    msg, exitStatus>>

NoLex ==
  [ok |-> FALSE, tokens |-> <<>>, errValue |-> <<>>, errLine |-> 0,
   errCol |-> 0]

NoFrame ==
  [retType |-> <<>>, name |-> <<>>, clsName |-> <<>>, parent |-> <<>>,
   params |-> <<>>, paramType |-> <<>>, stmts |-> <<>>, varType |-> <<>>,
   varName |-> <<>>, def |-> <<>>, expr |-> <<>>, caller |-> "none"]

NoProgram == [Declarations |-> <<>>]

Init ==
  /\ pc = "start"
  /\ code = <<>>
  /\ lex = NoLex
  /\ tokens = <<>>
  /\ pos = 0
  /\ ppc = "none"
  /\ fr = NoFrame
  /\ decls = <<>>
  /\ ast = NoProgram
  /\ accepted = <<>>
  /\ cCode = <<>>
  /\ outFile = [exists |-> FALSE, data |-> <<>>]
  /\ msg = "none"
  /\ exitStatus = -1

\* os.Exit(status) after printing m
Exit(status, m) ==
  /\ pc' = "exit"
  /\ exitStatus' = status
  /\ msg' = m

parserVars == <<tokens, pos, ppc, fr, decls, ast, accepted>>

\* the check of the argument count
CheckArgs ==
  /\ pc = "start"
  /\ \E argc \in {2, 3} :
       IF argc # 3
       THEN Exit(1, "usage")
       ELSE pc' = "read" /\ UNCHANGED <<exitStatus, msg>>
  /\ UNCHANGED <<code, lex, parserVars, cCode, outFile>>

\* ioutil.ReadFile(inputFile)
ReadFile ==
  /\ pc = "read"
  /\ \/ /\ Exit(1, "read error")
        /\ UNCHANGED code
     \/ /\ \E c \in Inputs : code' = c
        /\ pc' = "lex"
        /\ UNCHANGED <<exitStatus, msg>>
  /\ UNCHANGED <<lex, parserVars, cCode, outFile>>

\* tokens, err := tokenize(code), and NewParser(tokens) when err is nil
Lex ==
  /\ pc = "lex"
  /\ lex' = tokenize(code)
  /\ IF ~lex'.ok
     THEN /\ Exit(1, "lexing error")
          /\ UNCHANGED parserVars
     ELSE /\ pc' = "parse"
          /\ tokens' = lex'.tokens
          /\ pos' = 0
          /\ ppc' = "parse200"
          /\ UNCHANGED <<fr, decls, ast, accepted, exitStatus, msg>>
  /\ UNCHANGED <<code, cCode, outFile>>

(***************************************************************************)
(* Parser.  Each step is one statement of a parse function; ppc names the  *)
(* function and the source line of the statement executed next.            *)
(***************************************************************************)
\* the token type names the parser passes to consume, as text
TypeText(typ) ==
  CASE typ = "ID" -> <<"I", "D">>
    [] typ = "OP" -> <<"O", "P">>
    [] typ = "LPAREN" -> <<"L", "P", "A", "R", "E", "N">>
    [] typ = "RPAREN" -> <<"R", "P", "A", "R", "E", "N">>
    [] typ = "LBRACE" -> <<"L", "B", "R", "A", "C", "E">>
    [] typ = "RBRACE" -> <<"R", "B", "R", "A", "C", "E">>
    [] typ = "COLON" -> <<"C", "O", "L", "O", "N">>
    [] typ = "COMMA" -> <<"C", "O", "M", "M", "A">>
    [] typ = "SEMICOLON" -> <<"S", "E", "M", "I", "C", "O", "L", "O", "N">>

\* the Param literal with its two fields exchanged
MkParam_Swapped(paramType, paramName) ==
  [Type |-> paramName, Name |-> paramType]

\* Param{Type: paramType, Name: paramName}
MkParam(paramType, paramName) == [Type |-> paramType, Name |-> paramName]

\* VarDecl{VarType: varType, Name: varName, Default: def}
MkVarDecl(varType, varName, def) ==
  [kind |-> "VarDecl", VarType |-> varType, Name |-> varName, Default |-> def]

\* Statement{Expr: expr}
MkStatement(expr) == [kind |-> "Statement", Expr |-> expr]

\* FunctionDecl{RetType: retType, Name: name, Params: params, Body: body}
MkFunctionDecl(retType, name, params, body) ==
  [kind |-> "FunctionDecl", RetType |-> retType, Name |-> name,
   Params |-> params, Body |-> body]

\* ClassDecl{Name: name, Parent: parent, Members: members}
MkClassDecl(name, parent, members) ==
  [kind |-> "ClassDecl", Name |-> name, Parent |-> parent,
   Members |-> members]

\* the index p.pos is within p.tokens
InRange(i) == i >= 0 /\ i < Len(tokens)

\* p.tokens[i]
TokenAt(i) == tokens[i + 1]

\* p.current()
current == TokenAt(pos)

\* consume without the test of the expected type
ConsumeMatch_Unchecked(tok, typ) == TRUE

\* consume's test of a token against one expected type
ConsumeMatch(tok, typ) == tok.Type = typ \/ tok.Value = TypeText(typ)

\* a panic: the parse functions unwind to the deferred recover of main
Panic ==
  /\ ppc' = "panic"
  /\ UNCHANGED <<pos, fr, decls, ast, pc, accepted>>

\* p.consume(typ), then continue at next with the locals set to newFr
Consume(typ, next, newFr) ==
  IF InRange(pos) /\ ConsumeMatch(current, typ)
  THEN /\ pos' = pos + 1
       /\ ppc' = next
       /\ fr' = newFr
       /\ accepted' = Append(accepted, [at |-> ppc, want |-> typ, tok |-> current])
       /\ UNCHANGED <<decls, ast, pc>>
  ELSE Panic

\* parseExpression without the test of the token's type
IsLiteral_Unchecked(tok) == TRUE

\* parseExpression: consume() and the test of the token's type
IsLiteral(tok) == tok.Type \in {"NUMBER", "STRING", "ID"}

Running(l) == pc = "parse" /\ ppc = l

mainVars == <<code, lex, tokens, cCode, outFile, msg, exitStatus>>

\* the loop of parse
Parse ==
  /\ Running("parse200")
  /\ IF ~InRange(pos) THEN Panic
     ELSE IF current.Type = "EOF"
     THEN /\ ast' = [Declarations |-> decls]
          /\ ppc' = "returned"
          /\ pc' = "generate"
          /\ UNCHANGED <<pos, fr, decls, accepted>>
     ELSE /\ ppc' = IF current.Value = Wclass THEN "parseClass289"
                    ELSE "parseFunction214"
          /\ UNCHANGED <<pos, fr, decls, ast, pc, accepted>>
  /\ UNCHANGED mainVars

ParseFunction ==
  /\ \/ /\ Running("parseFunction214")
        /\ Consume("ID", "parseFunction215",
                   IF InRange(pos) THEN [fr EXCEPT !.retType = current.Value]
                   ELSE fr)
     \/ /\ Running("parseFunction215")
        /\ Consume("ID", "parseFunction216",
                   IF InRange(pos) THEN [fr EXCEPT !.name = current.Value]
                   ELSE fr)
     \/ /\ Running("parseFunction216")
        /\ Consume("LPAREN", "parseParams227", [fr EXCEPT !.params = <<>>])
     \/ /\ Running("parseFunction218")
        /\ Consume("RPAREN", "parseBlock246",
                   [fr EXCEPT !.caller = "parseFunction"])
  /\ UNCHANGED mainVars

ParseParams ==
  /\ \/ /\ Running("parseParams227")
        /\ IF ~InRange(pos) THEN Panic
           ELSE /\ ppc' = IF current.Type = "RPAREN" THEN "parseFunction218"
                          ELSE "parseParams232"
                /\ UNCHANGED <<pos, fr, decls, ast, pc, accepted>>
     \/ /\ Running("parseParams232")
        /\ Consume("ID", "parseParams233",
                   IF InRange(pos) THEN [fr EXCEPT !.paramType = current.Value]
                   ELSE fr)
     \/ /\ Running("parseParams233")
        /\ Consume("ID", "parseParams235",
                   IF InRange(pos)
                   THEN [fr EXCEPT !.params =
                           Append(@, MkParam(fr.paramType, current.Value))]
                   ELSE fr)
     \/ /\ Running("parseParams235")
        /\ IF ~InRange(pos) THEN Panic
           ELSE IF current.Type = "COMMA"
           THEN Consume("COMMA", "parseParams232", fr)
           ELSE /\ ppc' = "parseFunction218"
                /\ UNCHANGED <<pos, fr, decls, ast, pc, accepted>>
  /\ UNCHANGED mainVars

\* the declaration the caller of parseBlock returns once the block is parsed
BlockOwner(f, stmts) ==
  IF f.caller = "parseFunction"
  THEN MkFunctionDecl(f.retType, f.name, f.params, stmts)
  ELSE MkClassDecl(f.clsName, f.parent, stmts)

ParseBlock ==
  /\ \/ /\ Running("parseBlock246")
        /\ Consume("LBRACE", "parseBlock249", [fr EXCEPT !.stmts = <<>>])
     \/ /\ Running("parseBlock249")
        /\ IF ~InRange(pos) THEN Panic
           ELSE IF current.Type # "RBRACE"
           THEN /\ ppc' = "parseStatement259"
                /\ UNCHANGED <<pos, fr, decls, ast, pc, accepted>>
           ELSE /\ pos' = pos + 1
                /\ decls' = Append(decls, BlockOwner(fr, fr.stmts))
                /\ accepted' = Append(accepted, [at |-> "parseBlock252",
                                                 want |-> "RBRACE",
                                                 tok |-> current])
                /\ ppc' = "parse200"
                /\ UNCHANGED <<fr, ast, pc>>
  /\ UNCHANGED mainVars

ParseStatement ==
  /\ \/ /\ Running("parseStatement259")
        /\ IF ~InRange(pos) THEN Panic
           ELSE IF current.Type = "ID" /\ ~InRange(pos + 1) THEN Panic
           ELSE /\ ppc' = IF current.Type = "ID" /\ TokenAt(pos + 1).Type = "ID"
                          THEN "parseStatement260" ELSE "parseStatement271"
                /\ UNCHANGED <<pos, fr, decls, ast, pc, accepted>>
     \/ /\ Running("parseStatement260")
        /\ Consume("ID", "parseStatement261",
                   IF InRange(pos) THEN [fr EXCEPT !.varType = current.Value]
                   ELSE fr)
     \/ /\ Running("parseStatement261")
        /\ Consume("ID", "parseStatement263",
                   IF InRange(pos)
                   THEN [fr EXCEPT !.varName = current.Value, !.def = <<>>]
                   ELSE fr)
     \/ /\ Running("parseStatement263")
        /\ IF ~InRange(pos) THEN Panic
           ELSE IF current.Value = <<"=">>
           THEN Consume("OP", "parseStatement265", fr)
           ELSE /\ ppc' = "parseStatement267"
                /\ UNCHANGED <<pos, fr, decls, ast, pc, accepted>>
     \/ /\ Running("parseStatement267")
        /\ Consume("SEMICOLON", "parseBlock249",
                   [fr EXCEPT !.stmts =
                      Append(@, MkVarDecl(fr.varType, fr.varName, fr.def))])
     \/ /\ Running("parseStatement272")
        /\ Consume("SEMICOLON", "parseBlock249",
                   [fr EXCEPT !.stmts =
                      Append(@, MkStatement(fr.expr))])
  /\ UNCHANGED mainVars

\* parseExpression, called for a default value (line 265) and for an
\* expression statement (line 271)
ParseExpression ==
  /\ \/ Running("parseStatement265")
     \/ Running("parseStatement271")
  /\ IF ~InRange(pos) THEN Panic
     ELSE /\ pos' = pos + 1
          /\ IF IsLiteral(current)
             THEN /\ fr' = IF ppc = "parseStatement265"
                           THEN [fr EXCEPT !.def = current.Value]
                           ELSE [fr EXCEPT !.expr = current.Value]
                  /\ ppc' = IF ppc = "parseStatement265"
                            THEN "parseStatement267" ELSE "parseStatement272"
             ELSE /\ ppc' = "panic"
                  /\ UNCHANGED fr
          /\ UNCHANGED <<decls, ast, pc, accepted>>
  /\ UNCHANGED mainVars

ParseClass ==
  /\ \/ /\ Running("parseClass289")
        /\ Consume("ID", "parseClass290", fr)
     \/ /\ Running("parseClass290")
        /\ Consume("ID", "parseClass293",
                   IF InRange(pos)
                   THEN [fr EXCEPT !.clsName = current.Value,
                                   !.parent = <<>>,
                                   !.caller = "parseClass"]
                   ELSE fr)
     \/ /\ Running("parseClass293")
        /\ IF ~InRange(pos) THEN Panic
           ELSE IF current.Type = "COLON"
           THEN Consume("COLON", "parseClass295", fr)
           ELSE /\ ppc' = "parseBlock246"
                /\ UNCHANGED <<pos, fr, decls, ast, pc, accepted>>
     \/ /\ Running("parseClass295")
        /\ Consume("ID", "parseBlock246",
                   IF InRange(pos) THEN [fr EXCEPT !.parent = current.Value]
                   ELSE fr)
  /\ UNCHANGED mainVars

\* the deferred function without os.Exit(1): main returns normally
Recover_NoExit ==
  /\ pc = "parse"
  /\ ppc = "panic"
  /\ Exit(0, "parsing error")
  /\ UNCHANGED <<code, lex, parserVars, cCode, outFile>>

\* the deferred function of main: recover() after a panic in parse
Recover ==
  /\ pc = "parse"
  /\ ppc = "panic"
  /\ Exit(1, "parsing error")
  /\ UNCHANGED <<code, lex, parserVars, cCode, outFile>>

\* gen := NewCodeGenerator(ast); cCode := gen.generate()
Generate ==
  /\ pc = "generate"
  /\ cCode' = generate(ast)
  /\ pc' = "write"
  /\ UNCHANGED <<code, lex, parserVars, outFile, msg, exitStatus>>

\* ioutil.WriteFile(outputFile, []byte(cCode), 0644); main returns after it
WriteFile ==
  /\ pc = "write"
  /\ \/ /\ outFile' = [exists |-> TRUE, data |-> cCode]
        /\ Exit(0, "generated")
     \/ /\ UNCHANGED outFile
        /\ Exit(0, "write error")
  /\ UNCHANGED <<code, lex, parserVars, cCode>>

Next ==
  \/ CheckArgs
  \/ ReadFile
  \/ Lex
  \/ Parse
  \/ ParseFunction
  \/ ParseParams
  \/ ParseBlock
  \/ ParseStatement
  \/ ParseExpression
  \/ ParseClass
  \/ Recover
  \/ Generate
  \/ WriteFile

Spec == Init /\ [][Next]_vars

(***************************************************************************)
(* Properties.                                                             *)
(***************************************************************************)
Wint == <<"i", "n", "t">>
Wreturn == <<"r", "e", "t", "u", "r", "n">>

FooText ==
  <<"t", "y", "p", "e", "d", "e", "f", " ", "s", "t", "r", "u", "c", "t",
    " ", "F", "o", "o", " ", "{", "\n", " ", " ", " ", " ", "i", "n", "t",
    " ", "x", ";", "\n", "}", " ", "F", "o", "o", ";", "\n", "\n", "i", "n",
    "t", " ", "F", "o", "o", "_", "g", "e", "t", "(", "F", "o", "o", "*",
    " ", "t", "h", "i", "s", ")", " ", "{", "\n", " ", " ", " ", " ", "x",
    ";", "\n", "}", "\n", "\n">>

NoopText ==
  <<"v", "o", "i", "d", " ", "n", "o", "o", "p", "(", ")", " ", "{", "\n",
    "}", "\n", "\n">>

\* the Program the class example stands for: field x and method get
FooProgram ==
  [Declarations |->
     <<[kind |-> "ClassDecl", Name |-> <<"F", "o", "o">>,
        Parent |-> <<"B", "a", "r">>,
        Members |->
          <<[kind |-> "VarDecl", VarType |-> Wint, Name |-> <<"x">>,
             Default |-> <<>>],
            [kind |-> "FunctionDecl", RetType |-> Wint,
             Name |-> <<"g", "e", "t">>, Params |-> <<>>,
             Body |-> <<[kind |-> "Statement", Expr |-> <<"x">>]>>]>>]>>]

\* C1: the run on `class Foo : Bar { int x; int get() { x; } }` ends with the
\* class parsed into a field x and a method get, and with the generated text
\* being the includes followed by the struct Foo with the one field `int x`
\* and the one function Foo_get(Foo* this) whose body is `x;`.
C1_ClassMethodTranslated ==
  (code = SrcClassFoo /\ pc = "exit") =>
    /\ ppc = "returned"
    /\ ast = FooProgram
    /\ cCode = Includes \o FooText

\* generate has returned
Generated == pc \in {"write", "exit"} /\ ppc = "returned"

\* the generated text without the leading includes
AfterIncludes(text) == SubSeq(text, Len(Includes) + 1, Len(text))

Lexed ==
  \/ pc = "exit" /\ lex # NoLex /\ ~lex.ok
  \/ pc = "parse" /\ ppc = "parse200" /\ pos = 0

\* the matches that stand for tokens, in input order
TokensOf(ms) == SelectSeq(ms, LAMBDA m : m.typ \notin {"SKIP", "NEWLINE"})

TokenMatches(c) == TokensOf(FindAll(c))

\* 1 plus the number of newline characters before offset off
LineOf(c, off) == 1 + Cardinality({j \in 1..off : c[j] = "\n"})

\* the offset just after the last newline character before offset off
LineStartOf(c, off) ==
  LET nl == {j \in 1..off : c[j] = "\n"}
  IN IF nl = {} THEN 0 ELSE CHOOSE j \in nl : \A h \in nl : h <= j

\* C4: after a successful tokenize every token but the final EOF carries the
\* line (1 plus the newlines before its start) and the column (its start
\* minus the offset after the last newline before it) of its start.
C4_TokenPositions ==
  (Lexed /\ lex.ok) =>
    LET tm == TokenMatches(code)
    IN \A k \in 1..Len(tm) :
         /\ k <= Len(lex.tokens)
         /\ lex.tokens[k].Line = LineOf(code, tm[k].start)
         /\ lex.tokens[k].Column = tm[k].start - LineStartOf(code, tm[k].start)

\* offsets of the characters that only the catch-all category matches
MismatchOffsets(ms) ==
  {ms[k].start : k \in {h \in 1..Len(ms) : ms[h].typ = "MISMATCH"}}

LexFault == Lexed /\ ~lex.ok
ParseFault == ppc = "panic"

\* C6: the output file exists and the generator has run only after tokenize
\* returned without error and parse returned a Program; after a lexing or
\* parsing fault nothing is generated or written, the only step left to a
\* run that has not exited is the exit from the deferred recover, and the
\* run's exit status is not zero.
C6_FaultHandling ==
  /\ (outFile.exists \/ cCode # <<>> \/ pc \in {"generate", "write"}) =>
       (lex.ok /\ ppc = "returned" /\ ast = [Declarations |-> decls])
  /\ (LexFault \/ ParseFault) =>
       /\ ~outFile.exists
       /\ cCode = <<>>
       /\ pc \in {"parse", "exit"}
       /\ (pc = "parse" => (ENABLED Recover) /\ ~(ENABLED Generate))
       /\ (pc = "exit" => exitStatus # 0)

\* C6 witness: a run that ended on a parsing fault after some tokens were
\* consumed.
C6_ParseFaultExit == pc = "exit" /\ ParseFault /\ pos > 0

(***************************************************************************)
(* The literal grammars, as predicates on a whole text.                    *)
(***************************************************************************)
IsNumberText(s) ==
  \E d \in 1..Len(s) :
    /\ \A j \in 1..d : s[j] \in Digit
    /\ \/ d = Len(s)
       \/ /\ s[d + 1] = "."
          /\ \A j \in (d + 2)..Len(s) : s[j] \in Digit

IsStringText(s) ==
  /\ Len(s) >= 2
  /\ s[1] = "\""
  /\ StringBodyEnd(s, 2) = Len(s)
  /\ s[Len(s)] = "\""

IsIdText(s) ==
  /\ Len(s) >= 1
  /\ s[1] \in Letter
  /\ \A j \in 2..Len(s) : s[j] \in Letter \cup Digit

IsLexeme(s) ==
  \/ IsNumberText(s)
  \/ IsStringText(s)
  \/ IsIdText(s)
  \/ Len(s) = 1 /\ s[1] \in OpChar \cup {"(", ")", "{", "}", ":", ";", ",", "\n"}
  \/ Len(s) >= 1 /\ \A j \in 1..Len(s) : s[j] \in Blank

\* the text from index i on is a concatenation of literals
RECURSIVE SplitsFrom(_, _)
SplitsFrom(c, i) ==
  \/ i > Len(c)
  \/ \E j \in i..Len(c) : IsLexeme(SubSeq(c, i, j)) /\ SplitsFrom(c, j + 1)

LexemeOnly(c) == SplitsFrom(c, 1)

\* the token texts and the discarded runs put back in match order
RECURSIVE Reassemble(_, _, _, _, _)
Reassemble(c, ms, k, toks, t) ==
  IF k > Len(ms) THEN <<>>
  ELSE IF ms[k].typ \in {"SKIP", "NEWLINE"}
  THEN SubSeq(c, ms[k].start + 1, ms[k].end) \o Reassemble(c, ms, k + 1, toks, t)
  ELSE toks[t].Value \o Reassemble(c, ms, k + 1, toks, t + 1)

RoundTrip(c, toks) ==
  LET ms == FindAll(c)
      tm == TokensOf(ms)
  IN /\ Len(toks) = Len(tm) + 1
     /\ toks[Len(toks)].Type = "EOF"
     /\ \A k \in 1..Len(tm) :
          /\ toks[k].Type = tm[k].typ
          /\ toks[k].Value = SubSeq(c, tm[k].start + 1, tm[k].end)
          /\ tm[k].start < tm[k].end
          /\ k < Len(tm) => tm[k].end <= tm[k + 1].start
     /\ \A k \in 1..Len(ms) :
          /\ ms[k].start = (IF k = 1 THEN 0 ELSE ms[k - 1].end)
          /\ k = Len(ms) => ms[k].end = Len(c)
          /\ ms[k].typ \in {"SKIP", "NEWLINE"} =>
               \A j \in (ms[k].start + 1)..ms[k].end : c[j] \in Blank \cup {"\n"}
     /\ (ms = <<>>) => c = <<>>
     /\ Reassemble(c, ms, 1, toks, 1) = c

PunctuationKinds == {"LPAREN", "RPAREN", "LBRACE", "SEMICOLON"}

Angle == {<<"<">>, <<">">>}

\* number of angle bracket characters in a text
AngleCount(s) == Cardinality({j \in 1..Len(s) : s[j] \in {"<", ">"}})

RECURSIVE AnglesInStrings(_)
AnglesInStrings(toks) ==
  IF toks = <<>> THEN 0
  ELSE (IF Head(toks).Type = "STRING" THEN AngleCount(Head(toks).Value) ELSE 0)
       + AnglesInStrings(Tail(toks))

Reading == pc = "parse" /\ ppc \notin {"none", "panic", "returned"}

\* the reads of the statement the parser is about to execute are within
\* p.tokens: current() at pos, and the lookahead of parseStatement at pos + 1
\* when the current token is an identifier
ReadsInRange ==
  Reading =>
    /\ InRange(pos)
    /\ (ppc = "parseStatement259" /\ current.Type = "ID") => InRange(pos + 1)

\* C11: on the tokens of a successful tokenize every read of the parser is
\* within the token sequence, every step leaves the cursor in place or moves
\* it forward by one over a token in range, the cursor passes the final EOF
\* only in the panic of parseExpression, and a panic is raised by a statement
\* whose reads were in range (by consume or parseExpression, never by an
\* index out of range).
C11_CursorInBounds ==
  [][/\ ReadsInRange
     /\ ReadsInRange'
     /\ pos' \in {pos, pos + 1}
     /\ (pos' = pos + 1) => (Reading /\ InRange(pos))
     /\ (pc' = "parse") =>
          /\ tokens' # <<>>
          /\ tokens'[Len(tokens')].Type = "EOF"
          /\ pos' <= Len(tokens')
          /\ (pos' = Len(tokens')) =>
               (ppc' = "panic" /\ ppc \in {"parseStatement265", "parseStatement271"})
     /\ (ppc' = "panic" /\ ppc # "panic") => (Reading /\ InRange(pos))]_vars

\* C11 witness: a parse that ran into the final EOF inside a block and ended
\* in the panic of parseExpression, with the cursor just past the EOF.
C11_EarlyEofFault ==
  /\ pc = "exit"
  /\ ppc = "panic"
  /\ Len(tokens) > 1
  /\ pos = Len(tokens)

====
